---- MODULE Spec2Model ----
(***************************************************************************)
(* Route-table composition of fastapi/applications.py: the FastAPI         *)
(* application object, add_route and include_router.                       *)
(*                                                                         *)
(* Python objects are modelled by reference.  A route object is an index   *)
(* into the heap objs; a list object is named by the holder that created   *)
(* it, and routes[h] says which list object the attribute h.routes refers  *)
(* to, so two holders may share one list and one route object may be an    *)
(* entry of several lists (or several times of one list).                  *)
(***************************************************************************)
EXTENDS Integers, Sequences, FiniteSets, TLC

\* ------------------------------------------------------------------ bounds
MaxCalls == 2     \* add_route and include_router calls in one run
MaxLen == 4       \* longest route table a call may build

\* ------------------------------------------------------------ the universe
Apps == {"A", "B"}               \* FastAPI instances
Routers == {"R"}                 \* the APIRouter handed to include_router
Holders == Apps \cup Routers     \* everything that has a .routes attribute

Prefixes == {"", "/v", "/"}      \* prefix arguments ("" is the default)
AddPaths == {"/n"}               \* path arguments of add_route

\* An Optional[...] argument: None is <<>>, a given value v is <<v>>.
None == <<>>
Some(v) == <<v>>

Tags == {"x", "v1"}
TagArgs == {None, Some(<<"v1">>)}
MethodArgs == {None, Some(<<>>), Some(<<"POST", "PUT">>)}

Range(s) == {s[i] : i \in 1..Len(s)}
NoDup(s) == \A i, j \in 1..Len(s) : s[i] = s[j] => i = j

\* Python truthiness of an Optional[List]: None and [] are falsy.
Truthy(opt) == opt # None /\ opt[1] # <<>>

\* ------------------------------------------------------------ route objects
\* fastapi.routing.APIRoute keeps what it is constructed with; a route made
\* without a tags argument has no tags.
APIRoute(path, methods, tags) ==
    [kind |-> "APIRoute", path |-> path, methods |-> methods, tags |-> tags]

\* An entry of a router's table of another kind (a mount, a sub-application).
OtherRoute(path) ==
    [kind |-> "Mount", path |-> path, methods |-> <<>>, tags |-> <<>>]

\* What the router R may have been built with: the route objects, and its
\* table of references to them.  The last one is the table of a holder that
\* has included a one-route router twice: the same object, twice.
InitRouters ==
    { [objs |-> <<>>, table |-> <<>>],
      [objs |-> << OtherRoute("/m") >>, table |-> <<1>>],
      [objs |-> << APIRoute("/a", <<"GET">>, <<"x", "x">>) >>, table |-> <<1>>],
      [objs |-> << APIRoute("/a", <<"GET">>, <<"x">>), OtherRoute("/m"),
                   APIRoute("/b", <<"GET", "DELETE">>, <<>>) >>,
       table |-> <<1, 2, 3>>],
      [objs |-> << APIRoute("/a", <<"GET">>, <<>>) >>, table |-> <<1, 1>>] }

\* The routes argument an application may be constructed with: A with none or
\* with R's table, B with none.
RoutesArgs == {[A |-> arg, B |-> None] : arg \in {None, Some("R")}}

VARIABLES
    objs,      \* the heap of route objects: objs[o] is the object with id o
    lists,     \* the list objects: lists[l] is a sequence of route ids
    routes,    \* routes[h]: the list object h.routes refers to
    pc,        \* "idle", or "loop" inside include_router's for loop
    call,      \* the arguments of the running include_router call
    idx,       \* entries the running loop's list iterator has yielded
    setorder,  \* the order in which this interpreter run iterates a set of tags
    hist       \* the calls made, newest first, each with the heap before it

vars == <<objs, lists, routes, pc, call, idx, setorder, hist>>

NoCall == [self |-> "A", router |-> "A", prefix |-> "", tags |-> None]

\* self.routes = routes or []  (line 53): the given list object itself when it
\* is non-empty, a new list otherwise.
\* Every list with the elements of S, each once.
Orderings(S) ==
    {s \in [1..Cardinality(S) -> S] : \A e \in S : \E i \in 1..Cardinality(S) : s[i] = e}

RoutesOrNew(arg, tables, own) ==
    IF arg # None /\ tables[arg[1]] # <<>> THEN arg[1] ELSE own

Init ==
    \E r \in InitRouters :
    \E arg \in RoutesArgs :
        LET tables == [h \in Holders |-> IF h = "R" THEN r.table ELSE <<>>]
        IN  /\ objs = r.objs
            /\ lists = tables
            /\ routes = [h \in Holders |->
                            IF h \in Apps THEN RoutesOrNew(arg[h], tables, h)
                                          ELSE h]
            /\ pc = "idle"
            /\ call = NoCall
            /\ idx = 0
            /\ setorder \in Orderings(Tags)
            /\ hist = <<>>

\* The record of a call goes in front of the earlier ones.
Push(h) == <<h>> \o hist

\* A slip of line 78: the default only when methods is None.
MethodsIfNotNone(methods) == IF methods # None THEN methods[1] ELSE <<"GET">>

\* methods or ["GET"]  (line 78)
MethodsOrDefault(methods) == IF Truthy(methods) THEN methods[1] ELSE <<"GET">>

\* A slip of lines 82 and 108: the route goes in front (list.insert(0, route)).
InsertFirst(table, o) == <<o>> \o table

\* list.append  (lines 82 and 108)
AppendRoute(table, o) == Append(table, o)

\* add_route (lines 56-82): a new APIRoute, appended to self.routes.
add_route(self, path, methods) ==
    /\ pc = "idle"
    /\ Len(hist) < MaxCalls
    /\ Len(lists[routes[self]]) < MaxLen
    /\ objs' = Append(objs, APIRoute(path, MethodsOrDefault(methods), <<>>))
    /\ lists' = [lists EXCEPT ![routes[self]] = AppendRoute(@, Len(objs) + 1)]
    /\ hist' = Push([op |-> "add_route", self |-> self, path |-> path,
                     methods |-> methods, lists |-> lists, objs |-> objs])
    /\ UNCHANGED <<routes, pc, call, idx, setorder>>

\* A slip of line 104: the check is left out.
IsAnyEntry(route) == TRUE

\* isinstance(route, APIRoute)  (line 104)
IsAPIRoute(route) == route.kind = "APIRoute"

\* A slip of line 105: the operands the other way round.
SuffixedPath(prefix, path) == path \o prefix

\* prefix + route.path  (line 105)
PrefixedPath(prefix, path) == prefix \o path

\* list(set(route.tags + tags))  (line 107): the elements, each once, in the
\* order the interpreter iterates the set.
MergedTags(old, tags) ==
    LET InSet(t) == t \in Range(old \o tags) IN SelectSeq(setorder, InSet)

\* A slip of line 103: the loop runs over self.routes.
IteratedSelf(self, router) == lists[routes[self]]

\* for route in router.routes  (line 103): the list the loop iterates.
Iterated(self, router) == lists[routes[router]]

APICount(table) == Cardinality({i \in 1..Len(table) : IsAPIRoute(objs[table[i]])})

\* include_router is entered (lines 84-103): the iterator is at the start.
include_router(self, router, prefix, tags) ==
    /\ pc = "idle"
    /\ Len(hist) < MaxCalls
    /\ \/ routes[self] = routes[router]
       \/ Len(lists[routes[self]]) + APICount(lists[routes[router]]) <= MaxLen
    /\ pc' = "loop"
    /\ call' = [self |-> self, router |-> router, prefix |-> prefix, tags |-> tags]
    /\ idx' = 0
    /\ hist' = Push([op |-> "include_router", self |-> self, router |-> router,
                     prefix |-> prefix, tags |-> tags,
                     lists |-> lists, objs |-> objs])
    /\ UNCHANGED <<objs, lists, routes, setorder>>

\* One pass of the loop body (lines 103-108) on the entry the iterator yields.
loop_body ==
    /\ pc = "loop"
    /\ idx < Len(Iterated(call.self, call.router))
    /\ LET o == Iterated(call.self, call.router)[idx + 1]
           route == objs[o]
       IN  IF IsAPIRoute(route)
           THEN /\ Len(lists[routes[call.self]]) < MaxLen
                /\ objs' = [objs EXCEPT
                              ![o].path = PrefixedPath(call.prefix, route.path),
                              ![o].tags = IF Truthy(call.tags)
                                          THEN MergedTags(route.tags, call.tags[1])
                                          ELSE route.tags]
                /\ lists' = [lists EXCEPT ![routes[call.self]] = AppendRoute(@, o)]
           ELSE UNCHANGED <<objs, lists>>
    /\ idx' = idx + 1
    /\ UNCHANGED <<routes, pc, call, setorder, hist>>

\* The iterator is exhausted: include_router returns.
loop_exit ==
    /\ pc = "loop"
    /\ idx >= Len(Iterated(call.self, call.router))
    /\ pc' = "idle"
    /\ call' = NoCall
    /\ idx' = 0
    /\ UNCHANGED <<objs, lists, routes, setorder, hist>>

Next ==
    \/ \E self \in Apps, path \in AddPaths, methods \in MethodArgs :
          add_route(self, path, methods)
    \/ \E self \in Apps, router \in Holders, prefix \in Prefixes, tags \in TagArgs :
          include_router(self, router, prefix, tags)
    \/ loop_body
    \/ loop_exit

Spec == Init /\ [][Next]_vars

\* ------------------------------------------------------------------ claims
\* What the formulas below read of the call log.  Last is the newest call, and
\* it has returned when pc is "idle".
Last == hist[1]
IncludeReturned == pc = "idle" /\ hist # <<>> /\ Last.op = "include_router"
AddReturned == pc = "idle" /\ hist # <<>> /\ Last.op = "add_route"

\* Of the newest call: the target's table and the router's table before it,
\* the target's table now, and what the call has appended to it.
TargetBefore == Last.lists[routes[Last.self]]
RouterBefore == Last.lists[routes[Last.router]]
TargetNow == lists[routes[Last.self]]
Appended == SubSeq(TargetNow, Len(TargetBefore) + 1, Len(TargetNow))

WasAPIRoute(o) == Last.objs[o].kind = "APIRoute"
Occurrences(table, o) == Cardinality({i \in 1..Len(table) : table[i] = o})
IsPrefixOf(s, t) == Len(s) <= Len(t) /\ SubSeq(t, 1, Len(s)) = s
TagSet(tags) == IF tags = None THEN {} ELSE Range(tags[1])

RECURSIVE Repeated(_, _)
Repeated(str, k) == IF k = 0 THEN "" ELSE str \o Repeated(str, k - 1)

\* C1 as stated: a returned include_router call has appended every entry of
\* the router's table, N routes for N entries, in the table's order.
C1_AppendsEveryEntry ==
    IncludeReturned =>
        /\ Len(Appended) = Len(RouterBefore)
        /\ Appended = RouterBefore

\* C1 as amended: a returned include_router call has appended exactly the
\* entries of the router's table that are APIRoute objects, as many routes as
\* there are such entries, in the table's order.
C1_AppendsTheAPIRoutes ==
    IncludeReturned =>
        /\ Len(Appended) = Cardinality({i \in 1..Len(RouterBefore) :
                                           WasAPIRoute(RouterBefore[i])})
        /\ Appended = SelectSeq(RouterBefore, WasAPIRoute)

C1_Witness ==
    /\ IncludeReturned
    /\ Len(RouterBefore) = 3
    /\ Len(Appended) = 2
    /\ Appended[1] = RouterBefore[1] /\ Appended[2] = RouterBefore[3]
    /\ Last.prefix = "/v" /\ Last.tags = Some(<<"v1">>)

\* C2: after a returned include_router(R, prefix=P) every appended route has
\* the path P followed by the path it had just before the call.
C2_PathIsPrefixPlusOriginal ==
    IncludeReturned =>
        \A i \in 1..Len(Appended) :
            objs[Appended[i]].path = Last.prefix \o Last.objs[Appended[i]].path

C4_OnlyAPIRoutesImported ==
    (hist # <<>> /\ Last.op = "include_router") =>
        \A i \in 1..Len(RouterBefore) :
            LET o == RouterBefore[i]
            IN  IF WasAPIRoute(o)
                THEN pc = "idle" => \E j \in 1..Len(Appended) : Appended[j] = o
                ELSE /\ \A j \in 1..Len(Appended) : Appended[j] # o
                     /\ objs[o] = Last.objs[o]

C4_Witness ==
    /\ IncludeReturned
    /\ Last.prefix = "/" /\ Last.tags = Some(<<"v1">>)
    /\ \E i, j, k \in 1..Len(RouterBefore) :
          /\ i < j /\ j < k
          /\ WasAPIRoute(RouterBefore[i])
          /\ ~WasAPIRoute(RouterBefore[j])
          /\ WasAPIRoute(RouterBefore[k])
          /\ objs[RouterBefore[j]].path = "/m"
          /\ objs[RouterBefore[i]].path = "//a"
          /\ objs[RouterBefore[k]].path = "//b"
          /\ Appended = <<RouterBefore[i], RouterBefore[k]>>

\* C5: a returned add_route call has appended one new route as the last entry
\* of the table; its methods are {"GET"} when the methods argument was absent
\* or empty and the given methods otherwise; and no route made by add_route
\* has an empty method set.
C5_AddRouteAppendsOneWithMethods ==
    AddReturned =>
        LET new == Len(Last.objs) + 1
        IN  /\ Len(objs) = new
            /\ TargetNow = TargetBefore \o <<new>>
            /\ objs[new].kind = "APIRoute"
            /\ objs[new].path = Last.path
            /\ Range(objs[new].methods)
                  = IF Last.methods = None \/ Last.methods = Some(<<>>)
                    THEN {"GET"}
                    ELSE Range(Last.methods[1])
            /\ \A o \in 1..Len(objs) :
                  o > Len(hist[Len(hist)].objs) => objs[o].methods # <<>>

C5_Witness ==
    /\ AddReturned
    /\ Last.methods = Some(<<>>)
    /\ TargetBefore # <<>>
    /\ objs[TargetNow[Len(TargetNow)]].methods = <<"GET">>

\* C6: from the entry of an include_router call whose router has an empty
\* table, up to and after its return, the target's table has the entries it
\* had before the call, in the same order, each object as it was, and the
\* loop has nothing to iterate (the call returns, no error is raised).
C6_EmptyRouterIsNoOp ==
    (hist # <<>> /\ Last.op = "include_router" /\ RouterBefore = <<>>) =>
        /\ TargetNow = TargetBefore
        /\ \A i \in 1..Len(TargetNow) : objs[TargetNow[i]] = Last.objs[TargetNow[i]]
        /\ pc = "loop" => idx = 0 /\ Iterated(call.self, call.router) = <<>>

C6_Witness ==
    /\ IncludeReturned
    /\ RouterBefore = <<>>
    /\ Len(TargetNow) = 1
    /\ Last.prefix = "/v" /\ Last.tags = Some(<<"v1">>)

\* C7: no route object is an entry of the tables of two holders (holders
\* whose tables are two list objects).
C7_ExclusiveOwnership ==
    \A h1, h2 \in Holders :
        routes[h1] # routes[h2] =>
            Range(lists[routes[h1]]) \cap Range(lists[routes[h2]]) = {}

\* C8: every table is append-only: at every point of a call, and after it,
\* the table as it was before the call is a prefix of the table.
C8_TablesAppendOnly ==
    hist # <<>> =>
        \A h \in Holders : IsPrefixOf(Last.lists[routes[h]], lists[routes[h]])

C8_Witness ==
    /\ IncludeReturned
    /\ Len(TargetBefore) = 1
    /\ Len(TargetNow) = 3
    /\ TargetNow[1] = TargetBefore[1]

\* Two returned calls in a row, X.include_router(R, prefix=P1) and then
\* Y.include_router(R, prefix=P2), on two applications X and Y.
TwoInclusions ==
    /\ pc = "idle"
    /\ Len(hist) >= 2
    /\ hist[1].op = "include_router" /\ hist[2].op = "include_router"
    /\ hist[1].router = hist[2].router
    /\ hist[1].self # hist[2].self

FirstTable == hist[2].lists[routes[hist[2].router]]
SeenThroughAll(o) ==
    \A h \in {hist[1].self, hist[2].self, hist[1].router} :
        \E i \in 1..Len(lists[routes[h]]) : lists[routes[h]][i] = o

C10_LoopVisitsEntriesAtEntryOnce ==
    pc = "loop" => idx <= Len(RouterBefore)
====
